---- MODULE Spec2Model ----
(***************************************************************************)
(* A model of the process monitor of src/monitor.py and of its web         *)
(* interface, src/web_app.py: the construction of ProcessMonitor from its  *)
(* configuration file, ProcessMonitor.run with its sampling step           *)
(* collect_data, the per-process aggregation of _get_process_info, the     *)
(* finalization in run's finally block, and the operations of              *)
(* MonitorWebApp that run next to the main thread.                         *)
(*                                                                         *)
(* The main thread is modelled one statement at a time, because a          *)
(* KeyboardInterrupt is raised between any two bytecodes of the main       *)
(* thread: `pc` is the statement about to run.                             *)
(***************************************************************************)
EXTENDS Integers, Sequences, FiniteSets, TLC

VARIABLES
  config_file,    \* the file at config_path, as __init__ finds it
  config,         \* self.config: what _load_config returned
  logged,         \* _load_config has logged an error
  web_support,    \* the web_app module: "available", "missing" (WEB_SUPPORT
                  \* is False) or "broken" (create_web_app raises)
  pdf_enabled,    \* self.pdf_enabled
  direct_pdf,     \* self.direct_pdf
  plotly_pdf_support, \* PLOTLY_PDF_SUPPORT: simple_pdf could be imported
  pdf_support,    \* PDF_SUPPORT: pdf_converter could be imported
  faults,         \* the export steps that fail on this machine
  clock_back_at,  \* the time from which the local clock reads clock_shift
  clock_shift,    \* less (the end of daylight saving time), or None
  process_list,   \* self.process_list: the configured names, in order
  cpu_count,      \* psutil.cpu_count() as read in __init__
  interval,       \* self.interval
  duration,       \* run's argument; None is modelled by the value None below
  web_enabled,    \* self.web_enabled
  web_app,        \* TRUE iff self.web_app is a MonitorWebApp (not None)
  sample_time,    \* time one _get_process_info enumeration takes on this machine
  oversleep,      \* by how much time.sleep overruns on this machine
  os_procs,       \* the operating system's process table, in enumeration order
  os_cores,       \* how many per-core values psutil.cpu_percent reports now
  hotplugs,       \* how often the reported core count has changed
  data,           \* self.data: column key -> list
  columns,        \* the keys of self.data in the dict's (insertion) order
  monitor_data,   \* web_app.monitor_data: "None" or a reference to self.data
  pc,             \* the statement of run / collect_data about to execute
  idx,            \* the index of the enclosing for loop
  load_avg,       \* collect_data's local load_avg
  cpu_percent,    \* collect_data's local cpu_percent (the per-core list)
  proc_info,      \* the triple being accumulated / returned by _get_process_info
  now,            \* the clock read by time.time() and datetime.now()
  start_time,     \* run's local start_time
  exc,            \* the exception run will propagate once finally is over
  csv,            \* the persisted table: <<>> or <<the columns written>>
  interrupts,     \* history: SIGINTs delivered so far
  started,        \* history: collect_data calls begun
  ticks,          \* history: collect_data calls completed
  save_calls,     \* history: save_to_csv invocations
  viz_calls,      \* history: generate_visualizations invocations
  finalized,      \* history: the finally block ran to its last statement
  ended_by,       \* history: why the loop was left
  sigint_at,      \* history: pc and ticks at each SIGINT, in order
  sleeps,         \* history: time.sleep calls of the loop that returned
  pdf_attempts,   \* history: the PDF generations called and what they made
  df,             \* generate_visualizations' df: <<>> or <<the frame read>>
  conn,           \* handle_connect: where each client's handler is
  thread,         \* self.thread: the index in threads of the Thread, or None
  threads,        \* every background thread started, in order
  bg,             \* web_app.thread: "none", or the statement of
                  \* _background_thread about to execute, or "exited"
  thread_stop_event, \* web_app.thread_stop_event.is_set()
  sent,           \* the last payload the web interface sent: <<>> or <<it>>
  handed          \* history: the store as it was at the last update_data call

vars == << config_file, config, logged, web_support, pdf_enabled, direct_pdf,
           plotly_pdf_support, pdf_support, faults, clock_back_at,
           clock_shift, process_list, cpu_count, interval, duration,
           web_enabled, web_app, sample_time, oversleep, os_procs, os_cores,
           hotplugs, data, columns, monitor_data, pc, idx, load_avg,
           cpu_percent, proc_info, now, start_time, exc, csv, interrupts,
           started, ticks, save_calls, viz_calls, finalized, ended_by,
           sigint_at, sleeps, pdf_attempts, df, conn, thread, threads, bg,
           thread_stop_event, sent, handed >>

config_vars == << config_file, config, logged, web_support, pdf_enabled,
                  direct_pdf, plotly_pdf_support, pdf_support, faults,
                  clock_back_at, clock_shift, process_list, cpu_count,
                  interval, duration, web_enabled, web_app, sample_time,
                  oversleep, os_procs >>

history_vars == << interrupts, started, ticks, save_calls, viz_calls,
                   finalized, ended_by, sigint_at >>

\* What the loop and the exporters of the finally block have done.
trace_vars == << sleeps, pdf_attempts, df >>

\* The connect handlers and the background threads they started.
connect_vars == << conn, thread, threads >>

\* The state of the MonitorWebApp and of what it was given.
web_vars == << bg, thread_stop_event, sent, handed >>

(***************************************************************************)
(* Bounds of the model.                                                    *)
(***************************************************************************)
MaxSpecs == 2
MaxCores == 2
MaxInterval == 2
MaxDuration == 3
MaxSampleTime == 1
MaxOversleep == 1
MaxTicks == 4
MaxInterrupts == 2
MaxHotplugs == 1
MaxProcs == 2
MaxClockShift == 2
MaxThreads == 2
MaxPostStopEmits == 2

(***************************************************************************)
(* Python values.                                                          *)
(***************************************************************************)
\* None where a number is expected (CPU%, memory and durations are >= 0).
None == -1
\* None where a process name is expected.
NoName == << "None" >>
\* None where a status is expected.
NoStatus == "None"

\* Python's truth value of an optional number: None and 0 are false.
Truthy(x) == x # None /\ x # 0

\* `x or 0`
OrZero(x) == IF Truthy(x) THEN x ELSE 0

\* `s in t` for strings, as sequences of characters
IsSubstring(s, t) ==
  \E i \in 0..(Len(t) - Len(s)) : SubSeq(t, i + 1, i + Len(s)) = s

(***************************************************************************)
(* The store, self.data: a dict from column names to lists.  A column name *)
(* is modelled by the parts its f-string is built from, so that two names  *)
(* are equal exactly when the strings are.                                  *)
(***************************************************************************)
SysCol(k) == [kind |-> k, core |-> 0, proc |-> << >>]
CpuCol(i) == [kind |-> "cpu_percent", core |-> i, proc |-> << >>]
ProcCol(name, k) == [kind |-> k, core |-> 0, proc |-> name]

SysCols == { SysCol("timestamp"), SysCol("system_load_1"),
             SysCol("system_load_5"), SysCol("system_load_15") }

\* The keys __init__ creates, each with an empty list.
InitialData(procs, cores) ==
  [ c \in SysCols
          \cup { CpuCol(i) : i \in 0..(cores - 1) }
          \cup { ProcCol(procs[j], k) :
                   j \in 1..Len(procs),
                   k \in {"_cpu_percent", "_memory_rss", "_status"} }
      |-> << >> ]

\* A variant that puts a new key in front of the keys the dict holds.
DictInsertFirst(keys, k) ==
  IF \E i \in 1..Len(keys) : keys[i] = k THEN keys ELSE << k >> \o keys

\* self.data[k] = []: a key the dict does not hold yet goes after the keys
\* it holds, a key it holds keeps its place.
DictInsert(keys, k) ==
  IF \E i \in 1..Len(keys) : keys[i] = k THEN keys ELSE Append(keys, k)

\* The keys in the order __init__ assigns them: the dict literal, the loop
\* over range(cpu_count), the loop over process_list.
RECURSIVE InsertCpuCols(_, _, _)
InsertCpuCols(keys, i, cores) ==
  IF i >= cores THEN keys
  ELSE InsertCpuCols(DictInsert(keys, CpuCol(i)), i + 1, cores)

RECURSIVE InsertProcCols(_, _, _)
InsertProcCols(keys, j, procs) ==
  IF j > Len(procs) THEN keys
  ELSE InsertProcCols(
         DictInsert(DictInsert(DictInsert(keys,
                                          ProcCol(procs[j], "_cpu_percent")),
                               ProcCol(procs[j], "_memory_rss")),
                    ProcCol(procs[j], "_status")),
         j + 1, procs)

InitialColumns(procs, cores) ==
  InsertProcCols(
    InsertCpuCols(<< SysCol("timestamp"), SysCol("system_load_1"),
                     SysCol("system_load_5"), SysCol("system_load_15") >>,
                  0, cores),
    1, procs)

\* self.data[col].append(v)
\* A variant that appends the value twice.
ListAppendTwice(d, col, v) == [d EXCEPT ![col] = Append(Append(@, v), v)]

ListAppend(d, col, v) == [d EXCEPT ![col] = Append(@, v)]

\* pandas.DataFrame(dict of lists) raises ValueError unless all lists have
\* the same length.
SameLength(d) == \A c1, c2 \in DOMAIN d : Len(d[c1]) = Len(d[c2])

(***************************************************************************)
(* _get_process_info: one iteration of its for loop, and the whole call.   *)
(* A process of the table is [name, cpu_percent, memory_rss, status], each *)
(* None when psutil could not read it.                                     *)
(***************************************************************************)
\* A variant whose status starts as that of a live process.
NewAggregateRunning ==
  [cpu_percent |-> 0, memory_rss |-> 0, status |-> "running", raised |-> ""]

\* cpu_percent = 0; memory_rss = 0; status = "not_found"
NewAggregate ==
  [cpu_percent |-> 0, memory_rss |-> 0, status |-> "not_found", raised |-> ""]

\* A variant that keeps the status of the first matching process.
ProcStepFirstStatus(acc, proc, process_name) ==
  IF proc.name = NoName
  THEN [acc EXCEPT !.raised = "TypeError"]
  ELSE IF IsSubstring(process_name, proc.name)
       THEN [acc EXCEPT !.cpu_percent = @ + OrZero(proc.cpu_percent),
                        !.memory_rss = @ + (IF proc.memory_rss # None
                                            THEN proc.memory_rss ELSE 0),
                        !.status = IF @ = "not_found" THEN proc.status ELSE @]
       ELSE acc

ProcStep(acc, proc, process_name) ==
  IF proc.name = NoName
  THEN [acc EXCEPT !.raised = "TypeError"]
  ELSE IF IsSubstring(process_name, proc.name)
       THEN [acc EXCEPT !.cpu_percent = @ + OrZero(proc.cpu_percent),
                        !.memory_rss = @ + (IF proc.memory_rss # None
                                            THEN proc.memory_rss ELSE 0),
                        !.status = proc.status]
       ELSE acc

RECURSIVE Enumerate(_, _, _, _)
Enumerate(acc, procs, i, process_name) ==
  IF i > Len(procs) \/ acc.raised # ""
  THEN acc
  ELSE Enumerate(ProcStep(acc, procs[i], process_name), procs, i + 1,
                 process_name)

get_process_info(process_name, procs) ==
  Enumerate(NewAggregate, procs, 1, process_name)

(***************************************************************************)
(* Inputs: the configurations and the machine's answers the model draws    *)
(* from.                                                                    *)
(***************************************************************************)
\* Configured process names: "w" and "W".
SpecNames == { << "w" >>, << "W" >> }

ProcessLists == UNION { [1..n -> SpecNames] : n \in 0..MaxSpecs }

\* Durations run can be given: None, or a number of seconds >= 0.
Durations == {None} \cup 0..MaxDuration

\* (web_enabled, web_app is set): the web interface off, on and started, or
\* enabled without an app (enabled by --web after __init__, or the start failed).
WebSettings == { <<FALSE, FALSE>>, <<TRUE, TRUE>>, <<TRUE, FALSE>> }

\* A process table of a run: "w1" running and "w2" sleeping ...
LiveTable ==
  << [name |-> << "w", "1" >>, cpu_percent |-> 10, memory_rss |-> 4,
      status |-> "running"],
     [name |-> << "w", "2" >>, cpu_percent |-> 5, memory_rss |-> 2,
      status |-> "sleeping"] >>

\* ... and one that also holds a process psutil could not read.
DeniedTable ==
  << [name |-> << "w", "1" >>, cpu_percent |-> 10, memory_rss |-> 4,
      status |-> "running"],
     [name |-> NoName, cpu_percent |-> None, memory_rss |-> None,
      status |-> NoStatus] >>

\* psutil.getloadavg() and one per-core value of psutil.cpu_percent.
LoadAvg == << 1, 2, 3 >>
CorePercent == 50

(***************************************************************************)
(* The configuration file.  A YAML mapping is modelled by its two entries  *)
(* "processes" and "settings", each absent, null (a key without a value)   *)
(* or a value; a settings mapping by its entries "interval" and            *)
(* "web_enabled", each absent (<< >>) or a value (<< v >>).                *)
(***************************************************************************)
Absent(dummy) == [has |-> "absent", v |-> dummy]
Null(dummy) == [has |-> "null", v |-> dummy]
Value(x) == [has |-> "value", v |-> x]

NoSettings ==
  [interval |-> << >>, web_enabled |-> << >>, pdf_enabled |-> << >>,
   direct_pdf |-> << >>]

Document(k) ==
  [kind |-> k, processes |-> Absent(<< >>), settings |-> Absent(NoSettings)]

\* self.config before _load_config has returned; in the specifications that
\* start after construction, the file and the configuration that are not
\* looked at again.
NotLoaded == Document("not loaded")

\* The return value of yaml.safe_load on an empty file.
NoneConfig == Document("None")

DefaultName == << "python" >>
DefaultInterval == 10
GetIntervalDefault == 10

\* The dict _load_config returns when the file cannot be loaded.
DefaultConfig ==
  [kind |-> "mapping",
   processes |-> Value(<< DefaultName >>),
   settings |-> Value([interval |-> << DefaultInterval >>,
                       web_enabled |-> << FALSE >>,
                       pdf_enabled |-> << FALSE >>,
                       direct_pdf |-> << >>])]

ProcessesEntries ==
  { Absent(<< >>), Null(<< >>) } \cup { Value(l) : l \in ProcessLists }

SettingsMappings ==
  [ interval : { << >> } \cup { << n >> : n \in 1..MaxInterval },
    web_enabled : { << >>, << TRUE >>, << FALSE >> },
    pdf_enabled : { << >>, << TRUE >> },
    direct_pdf : { << >>, << FALSE >> } ]

SettingsEntries ==
  { Absent(NoSettings), Null(NoSettings) }
    \cup { Value(m) : m \in SettingsMappings }

\* No file, a file that is not YAML, an empty file, and the mappings.
ConfigFiles ==
  { Document("missing"), Document("unparsable"), Document("empty") }
    \cup [ kind : {"mapping"}, processes : ProcessesEntries,
           settings : SettingsEntries ]

\* open(self.config_path) raises FileNotFoundError, yaml.safe_load raises
\* yaml.YAMLError
LoadRaises(f) == f.kind \in {"missing", "unparsable"}

\* yaml.safe_load(file) when it returns: None for an empty document
safe_load(f) == IF f.kind = "empty" THEN NoneConfig ELSE f

\* _load_config: the loaded document, or the built-in configuration when
\* opening or parsing raised
load_config(f) == IF LoadRaises(f) THEN DefaultConfig ELSE safe_load(f)

\* d.get(key, default) on a settings mapping
Get(entry, default) == IF entry = << >> THEN default ELSE entry[1]

\* self.config[key]: the exception it raises, or "" when it returns
SubscriptRaises(cfg, key) ==
  IF cfg.kind = "None" THEN "TypeError"
  ELSE IF cfg[key].has = "absent" THEN "KeyError"
  ELSE ""

\* The browsers that connect to the web interface.
Clients == { "c1", "c2" }

(***************************************************************************)
(* The machine a run is on and the PDF settings it is given.               *)
(***************************************************************************)
\* The export steps that can fail: df.to_csv (the file cannot be written),
\* generate_visualizations (write_html), create_pdf_reports (it makes no
\* file, e.g. without kaleido), convert_html_to_pdf (it returns None).
Faults == { "csv", "html", "direct_pdf", "convert" }

\* PDF generation off (the default of settings.get), every module imported,
\* nothing failing, the local clock never set back.
Nominal ==
  [pdf_enabled |-> FALSE, direct_pdf |-> TRUE, plotly_pdf_support |-> TRUE,
   pdf_support |-> TRUE, faults |-> {}, web_support |-> "available",
   clock_back_at |-> None, clock_shift |-> None]

\* Every PDF setting, every set of importable modules and failing steps.
ExportSetups ==
  [ pdf_enabled : BOOLEAN, direct_pdf : BOOLEAN,
    plotly_pdf_support : BOOLEAN, pdf_support : BOOLEAN,
    faults : SUBSET Faults, web_support : {"available"},
    clock_back_at : {None}, clock_shift : {None} ]

\* Local clocks that are never set back, or set back once during the run.
ClockSetups ==
  { [Nominal EXCEPT !.clock_back_at = e[1], !.clock_shift = e[2]] :
      e \in { x \in (1..MaxDuration) \X (1..MaxClockShift) : x[2] <= x[1] } }
    \cup { Nominal }

\* datetime.datetime.now(): the local time at time t
LocalTime(t, back_at, shift) ==
  IF back_at # None /\ t >= back_at THEN t - shift ELSE t

(***************************************************************************)
(* The state after ProcessMonitor.__init__ and main's overrides, at the    *)
(* try statement of run.                                                    *)
(***************************************************************************)
InitRun(at, lists, cores, intervals, durations, webs, lags, overs, tables, files, envs) ==
  /\ \E e \in envs :
       /\ web_support = e.web_support
       /\ pdf_enabled = e.pdf_enabled
       /\ direct_pdf = e.direct_pdf
       /\ plotly_pdf_support = e.plotly_pdf_support
       /\ pdf_support = e.pdf_support
       /\ faults = e.faults
       /\ clock_back_at = e.clock_back_at
       /\ clock_shift = e.clock_shift
  /\ config_file \in files
  /\ config = NotLoaded
  /\ logged = FALSE
  /\ process_list \in lists
  /\ cpu_count \in cores
  /\ interval \in intervals
  /\ duration \in durations
  /\ \E w \in webs : web_enabled = w[1] /\ web_app = w[2]
  /\ sample_time \in lags
  /\ oversleep \in overs
  /\ os_procs \in tables
  /\ os_cores = cpu_count
  /\ hotplugs = 0
  /\ data = InitialData(process_list, cpu_count)
  /\ columns = InitialColumns(process_list, cpu_count)
  /\ monitor_data = "None"
  /\ pc = at
  /\ idx = 0
  /\ load_avg = << >>
  /\ cpu_percent = << >>
  /\ proc_info = NewAggregate
  /\ now = 0
  /\ start_time = 0
  /\ exc = "none"
  /\ csv = << >>
  /\ interrupts = 0
  /\ started = 0
  /\ ticks = 0
  /\ save_calls = 0
  /\ viz_calls = 0
  /\ finalized = FALSE
  /\ ended_by = "running"
  /\ sigint_at = << >>
  /\ sleeps = 0
  /\ pdf_attempts = << >>
  /\ df = << >>
  /\ conn = [ c \in Clients |-> "idle" ]
  /\ thread = None
  /\ threads = << >>
  /\ bg = "none"
  /\ thread_stop_event = FALSE
  /\ sent = << >>
  /\ handed = << >>

\* Every configuration, on a machine where sampling and sleeping take exactly
\* their nominal time.
Init ==
  InitRun("start", ProcessLists, 1..MaxCores, {1}, Durations, WebSettings,
          {0}, {0}, {LiveTable, DeniedTable}, {NotLoaded}, {Nominal})

\* One process spec, one core, no web interface: every interval and duration,
\* on machines of every sampling latency and sleep overrun.
InitTiming ==
  InitRun("start", { << n >> : n \in SpecNames }, {1}, 1..MaxInterval,
          Durations, { <<FALSE, FALSE>> }, 0..MaxSampleTime, 0..MaxOversleep,
          {LiveTable}, {NotLoaded}, {Nominal})

(***************************************************************************)
(* MonitorWebApp's data.  Python passes and stores references: update_data *)
(* keeps the dict it is given, it does not copy it.                        *)
(***************************************************************************)
\* MonitorWebApp.update_data(data): self.monitor_data = data
update_data(ref) == ref

\* The dict a reference denotes now.
Deref(ref, store) == IF ref = "self.data" THEN store ELSE << >>

\* `if self.monitor_data:` -- None and an empty dict are false.
HasMonitorData(ref, store) == ref # "None" /\ DOMAIN Deref(ref, store) # {}

\* datetime.isoformat(), and the HTTP date Flask's jsonify writes.
IsoFormat(t) == << "iso", t >>
HttpDate(t) == << "http", t >>

\* _make_json_serializable(data): a new dict of new lists, the datetimes
\* (the timestamp column) replaced by their isoformat strings.
make_json_serializable(d) ==
  [ c \in DOMAIN d |->
      [ i \in 1..Len(d[c]) |->
          IF c = SysCol("timestamp") THEN IsoFormat(d[c][i]) ELSE d[c][i] ] ]

\* flask.jsonify(data): the response body, the dict it is given encoded.
jsonify(d) ==
  [ c \in DOMAIN d |->
      [ i \in 1..Len(d[c]) |->
          IF c = SysCol("timestamp") THEN HttpDate(d[c][i]) ELSE d[c][i] ] ]

\* A variant that takes the oldest value out of each list it serializes.
ArgumentAfterDraining(d) ==
  [ c \in DOMAIN d |-> IF d[c] = << >> THEN << >> ELSE Tail(d[c]) ]

\* The dict _make_json_serializable and jsonify were given, after the call:
\* both build their result from comprehensions and assign nothing in it.
ArgumentAfterSerializing(d) == d

(***************************************************************************)
(* pandas: the frame built from the store, the csv file written from it    *)
(* and the frame read back from the file.                                  *)
(***************************************************************************)
\* pd.DataFrame(self.data): the dict's keys in order as columns, one row
\* per list index (the lists have the same length, or it raises).
DataFrame(d, cols) ==
  [columns |-> cols,
   rows |-> [ r \in 1..Len(d[cols[1]]) |->
                [ j \in 1..Len(cols) |-> d[cols[j]][r] ] ]]

\* One field of the file: None is written as the empty field, a status as
\* its text, a number or a datetime as its digits.
WriteField(col, v) ==
  IF col.kind = "_status"
  THEN IF v = NoStatus THEN [as |-> "empty", text |-> "", digits |-> 0]
       ELSE [as |-> "text", text |-> v, digits |-> 0]
  ELSE [as |-> "digits", text |-> "", digits |-> v]

\* A variant that also writes the frame's index as a first, unnamed column.
to_csv_with_index(frame) ==
  [header |-> << SysCol("") >> \o frame.columns,
   lines |-> [ r \in 1..Len(frame.rows) |->
                 << [as |-> "digits", text |-> "", digits |-> r - 1] >>
                   \o [ j \in 1..Len(frame.columns) |->
                          WriteField(frame.columns[j], frame.rows[r][j]) ] ]]

\* df.to_csv(csv_path, index=False): a header line of the column names and
\* one line per row
to_csv(frame) ==
  [header |-> frame.columns,
   lines |-> [ r \in 1..Len(frame.rows) |->
                 [ j \in 1..Len(frame.columns) |->
                     WriteField(frame.columns[j], frame.rows[r][j]) ] ]]

\* A line of which every field is empty is a blank line for a one-column
\* file, skipped by read_csv (skip_blank_lines).
BlankLine(line) == Len(line) = 1 /\ line[1].as = "empty"

\* pd.read_csv(csv_path): the header gives the columns; an empty field is
\* read as NaN
read_csv(file) ==
  LET kept == SelectSeq(file.lines, LAMBDA l : ~BlankLine(l))
  IN  [columns |-> file.header,
       rows |-> [ r \in 1..Len(kept) |->
                    [ j \in 1..Len(kept[r]) |->
                        IF kept[r][j].as = "empty"
                        THEN [as |-> "NaN", text |-> "", digits |-> 0]
                        ELSE kept[r][j] ] ]]

\* A variant of the frame construction that moves the lists into the frame
\* and leaves the dict empty-handed.
DictAfterMovingToFrame(d) == [ c \in DOMAIN d |-> << >> ]

\* The dict pd.DataFrame was given, after the call: the frame holds copies.
DictAfterDataFrame(d) == d

(***************************************************************************)
(* run and collect_data, statement by statement.                           *)
(***************************************************************************)
TryPcs == { "start", "collect_data", "getloadavg", "append_load_1",
            "append_load_5", "append_load_15", "cpu_percent", "cpu_loop",
            "proc_loop", "append_proc_cpu", "append_proc_memory",
            "append_proc_status", "update_web", "check_duration", "sleep" }

CollectPcs == TryPcs \ { "start", "collect_data", "check_duration", "sleep" }

FinallyPcs == { "finally", "save_to_csv", "generate_visualizations", "report" }

\* An exception raised in the finally block replaces the pending one and
\* leaves run.
RaiseInFinally(e) ==
  /\ pc' = "raised"
  /\ exc' = e

\* An exception other than KeyboardInterrupt raised in the try block: no
\* except clause matches, the finally block runs, then it propagates.
Raise(e) ==
  /\ pc' = "finally"
  /\ exc' = e
  /\ ended_by' = "error"

\* A variant of the loop that begins by waiting for the interval.
LoopEntryWaitFirst == "sleep"

\* while True: self.collect_data() -- the first statement of the loop body
LoopEntry == "collect_data"

\* start_time = time.time()
RunStart ==
  /\ pc = "start"
  /\ start_time' = now
  /\ pc' = LoopEntry
  /\ UNCHANGED << config_vars, trace_vars, connect_vars, columns, web_vars,
                  os_cores, hotplugs, data, monitor_data, idx, load_avg,
                  cpu_percent, proc_info, now, exc, csv, history_vars >>

\* timestamp = datetime.datetime.now(); self.data["timestamp"].append(timestamp)
Timestamp ==
  /\ pc = "collect_data"
  /\ started < MaxTicks
  /\ data' = ListAppend(data, SysCol("timestamp"),
                        LocalTime(now, clock_back_at, clock_shift))
  /\ started' = started + 1
  /\ pc' = "getloadavg"
  /\ UNCHANGED << config_vars, trace_vars, connect_vars, columns, web_vars,
                  os_cores, hotplugs, monitor_data, idx, load_avg,
                  cpu_percent, proc_info, now, start_time, exc, csv,
                  interrupts, ticks, save_calls, viz_calls, finalized,
                  ended_by, sigint_at >>

\* load_avg = psutil.getloadavg(), which raises OSError when the load
\* average cannot be obtained
GetLoadAvg ==
  /\ pc = "getloadavg"
  /\ \E ok \in BOOLEAN :
       IF ok
       THEN /\ load_avg' = LoadAvg
            /\ pc' = "append_load_1"
            /\ UNCHANGED << exc, ended_by >>
       ELSE /\ Raise("OSError")
            /\ UNCHANGED load_avg
  /\ UNCHANGED << config_vars, trace_vars, connect_vars, columns, web_vars,
                  os_cores, hotplugs, data, monitor_data, idx, cpu_percent,
                  proc_info, now, start_time, csv, interrupts, started,
                  ticks, save_calls, viz_calls, finalized, sigint_at >>

\* self.data["system_load_N"].append(load_avg[i])
AppendLoad(at, col, i, next) ==
  /\ pc = at
  /\ data' = ListAppend(data, SysCol(col), load_avg[i])
  /\ pc' = next
  /\ UNCHANGED << config_vars, trace_vars, connect_vars, columns, web_vars,
                  os_cores, hotplugs, monitor_data, idx, load_avg,
                  cpu_percent, proc_info, now, start_time, exc, csv,
                  history_vars >>

AppendLoad1 == AppendLoad("append_load_1", "system_load_1", 1, "append_load_5")
AppendLoad5 == AppendLoad("append_load_5", "system_load_5", 2, "append_load_15")
AppendLoad15 == AppendLoad("append_load_15", "system_load_15", 3, "cpu_percent")

\* The operating system starts reporting another number of cores on a tick
\* after the first.  The count is read only by psutil.cpu_percent, so the
\* change is taken there.
CpuHotplug ==
  /\ pc = "cpu_percent"
  /\ ticks >= 1
  /\ hotplugs < MaxHotplugs
  /\ os_cores' \in (1..(MaxCores + 1)) \ {os_cores}
  /\ hotplugs' = hotplugs + 1
  /\ UNCHANGED << config_vars, trace_vars, connect_vars, columns, web_vars,
                  data, monitor_data, pc, idx, load_avg, cpu_percent,
                  proc_info, now, start_time, exc, csv, history_vars >>

\* cpu_percent = psutil.cpu_percent(percpu=True)
CpuPercent ==
  /\ pc = "cpu_percent"
  /\ cpu_percent' = [i \in 1..os_cores |-> CorePercent]
  /\ idx' = 0
  /\ pc' = "cpu_loop"
  /\ UNCHANGED << config_vars, trace_vars, connect_vars, columns, web_vars,
                  os_cores, hotplugs, data, monitor_data, load_avg,
                  proc_info, now, start_time, exc, csv, history_vars >>

\* for i, percent in enumerate(cpu_percent):
\*     self.data[f"cpu_{i}_percent"].append(percent)
CpuLoop ==
  /\ pc = "cpu_loop"
  /\ IF idx < Len(cpu_percent)
     THEN IF CpuCol(idx) \in DOMAIN data
          THEN /\ data' = ListAppend(data, CpuCol(idx), cpu_percent[idx + 1])
               /\ idx' = idx + 1
               /\ UNCHANGED << pc, exc, ended_by >>
          ELSE /\ Raise("KeyError")
               /\ UNCHANGED << data, idx >>
     ELSE /\ pc' = "proc_loop"
          /\ idx' = 0
          /\ UNCHANGED << data, exc, ended_by >>
  /\ UNCHANGED << config_vars, trace_vars, connect_vars, columns, web_vars,
                  os_cores, hotplugs, monitor_data, load_avg, cpu_percent,
                  proc_info, now, start_time, csv, interrupts, started,
                  ticks, save_calls, viz_calls, finalized, sigint_at >>

\* for proc in self.process_list:
\*     cpu_percent, memory_rss, status = self._get_process_info(proc_name)
ProcLoop ==
  /\ pc = "proc_loop"
  /\ IF idx < Len(process_list)
     THEN LET r == get_process_info(process_list[idx + 1], os_procs)
          IN  /\ now' = now + sample_time
              /\ IF r.raised # ""
                 THEN /\ Raise(r.raised)
                      /\ UNCHANGED proc_info
                 ELSE /\ proc_info' = r
                      /\ pc' = "append_proc_cpu"
                      /\ UNCHANGED << exc, ended_by >>
     ELSE /\ pc' = "update_web"
          /\ UNCHANGED << proc_info, now, exc, ended_by >>
  /\ UNCHANGED << config_vars, trace_vars, connect_vars, columns, web_vars,
                  os_cores, hotplugs, data, monitor_data, idx, load_avg,
                  cpu_percent, start_time, csv, interrupts, started, ticks,
                  save_calls, viz_calls, finalized, sigint_at >>

\* self.data[f"{proc_name}_<k>"].append(<value>)
AppendProc(at, k, v, next, step) ==
  /\ pc = at
  /\ data' = ListAppend(data, ProcCol(process_list[idx + 1], k), v)
  /\ pc' = next
  /\ idx' = idx + step
  /\ UNCHANGED << config_vars, trace_vars, connect_vars, columns, web_vars,
                  os_cores, hotplugs, monitor_data, load_avg, cpu_percent,
                  proc_info, now, start_time, exc, csv, history_vars >>

AppendProcCpu ==
  AppendProc("append_proc_cpu", "_cpu_percent", proc_info.cpu_percent,
             "append_proc_memory", 0)
AppendProcMemory ==
  AppendProc("append_proc_memory", "_memory_rss", proc_info.memory_rss,
             "append_proc_status", 0)
AppendProcStatus ==
  AppendProc("append_proc_status", "_status", proc_info.status,
             "proc_loop", 1)

\* if self.web_enabled and self.web_app: self.web_app.update_data(self.data)
\* (update_data keeps the reference: self.monitor_data = data), and
\* collect_data returns.
UpdateWeb ==
  /\ pc = "update_web"
  /\ IF web_enabled /\ web_app
     THEN /\ monitor_data' = update_data("self.data")
          /\ handed' = << data >>
     ELSE UNCHANGED << monitor_data, handed >>
  /\ ticks' = ticks + 1
  /\ pc' = "check_duration"
  /\ UNCHANGED << config_vars, trace_vars, connect_vars, columns, bg,
                  thread_stop_event, sent, os_cores, hotplugs, data, idx,
                  load_avg, cpu_percent, proc_info, now, start_time, exc,
                  csv, interrupts, started, save_calls, viz_calls, finalized,
                  ended_by, sigint_at >>

\* if duration and (time.time() - start_time) >= duration: break
LoopExits(d, elapsed) == Truthy(d) /\ elapsed >= d

CheckDuration ==
  /\ pc = "check_duration"
  /\ IF LoopExits(duration, now - start_time)
     THEN /\ pc' = "finally"
          /\ ended_by' = "duration"
     ELSE /\ pc' = "sleep"
          /\ UNCHANGED ended_by
  /\ UNCHANGED << config_vars, trace_vars, connect_vars, columns, web_vars,
                  os_cores, hotplugs, data, monitor_data, idx, load_avg,
                  cpu_percent, proc_info, now, start_time, exc, csv,
                  interrupts, started, ticks, save_calls, viz_calls,
                  finalized, sigint_at >>

\* A variant that returns without waiting for the interval.
SleepTimeNoInterval(i, over) == over

\* time.sleep(self.interval)
SleepTime(i, over) == i + over

Sleep ==
  /\ pc = "sleep"
  /\ now' = now + SleepTime(interval, oversleep)
  /\ sleeps' = sleeps + 1
  /\ pc' = "collect_data"
  /\ UNCHANGED << config_vars, pdf_attempts, df, connect_vars, columns,
                  web_vars, os_cores, hotplugs, data, monitor_data, idx,
                  load_avg, cpu_percent, proc_info, start_time, exc, csv,
                  history_vars >>

(***************************************************************************)
(* SIGINT: Python raises KeyboardInterrupt in the main thread before its   *)
(* next statement.  In the try block the except clause takes it; in the    *)
(* except clause the finally block still runs and the exception then       *)
(* propagates; in the finally block it leaves run at once.                  *)
(***************************************************************************)
Interrupt ==
  /\ pc \in TryPcs \cup {"except"} \cup FinallyPcs
  /\ interrupts < MaxInterrupts
  /\ interrupts' = interrupts + 1
  /\ sigint_at' = Append(sigint_at, [pc |-> pc, ticks |-> ticks])
  /\ IF pc \in TryPcs
     THEN /\ pc' = "except"
          /\ ended_by' = "interrupt"
          /\ UNCHANGED exc
     ELSE IF pc = "except"
     THEN /\ pc' = "finally"
          /\ exc' = "KeyboardInterrupt"
          /\ UNCHANGED ended_by
     ELSE /\ pc' = "raised"
          /\ exc' = "KeyboardInterrupt"
          /\ UNCHANGED ended_by
  /\ UNCHANGED << config_vars, trace_vars, connect_vars, columns, web_vars,
                  os_cores, hotplugs, data, monitor_data, idx, load_avg,
                  cpu_percent, proc_info, now, start_time, csv, started,
                  ticks, save_calls, viz_calls, finalized >>

\* except KeyboardInterrupt: print("Monitoring stopped by user.")
ExceptHandler ==
  /\ pc = "except"
  /\ pc' = "finally"
  /\ UNCHANGED << config_vars, trace_vars, connect_vars, columns, web_vars,
                  os_cores, hotplugs, data, monitor_data, idx, load_avg,
                  cpu_percent, proc_info, now, start_time, exc, csv,
                  history_vars >>

\* finally: if self.data["timestamp"]:
HasData(d) == Len(d[SysCol("timestamp")]) > 0

FinallyGuard ==
  /\ pc = "finally"
  /\ IF HasData(data)
     THEN /\ pc' = "save_to_csv"
          /\ UNCHANGED finalized
     ELSE /\ pc' = "run_end"
          /\ finalized' = TRUE
  /\ UNCHANGED << config_vars, trace_vars, connect_vars, columns, web_vars,
                  os_cores, hotplugs, data, monitor_data, idx, load_avg,
                  cpu_percent, proc_info, now, start_time, exc, csv,
                  interrupts, started, ticks, save_calls, viz_calls,
                  ended_by, sigint_at >>

\* csv_path = self.save_to_csv(): df = pd.DataFrame(self.data) raises
\* ValueError on lists of unequal length, df.to_csv raises OSError when the
\* file cannot be written.  `csv` is the table the file was written from.
SaveToCsv ==
  /\ pc = "save_to_csv"
  /\ save_calls' = save_calls + 1
  /\ IF ~SameLength(data)
     THEN /\ RaiseInFinally("ValueError")
          /\ UNCHANGED << csv, data >>
     ELSE /\ data' = DictAfterDataFrame(data)
          /\ IF "csv" \in faults
             THEN /\ RaiseInFinally("OSError")
                  /\ UNCHANGED csv
             ELSE /\ csv' = << data >>
                  /\ pc' = "generate_visualizations"
                  /\ UNCHANGED exc
  /\ UNCHANGED << config_vars, trace_vars, connect_vars, columns, web_vars,
                  os_cores, hotplugs, monitor_data, idx, load_avg,
                  cpu_percent, proc_info, now, start_time, interrupts,
                  started, ticks, viz_calls, finalized, ended_by,
                  sigint_at >>

\* html_paths = self.generate_visualizations(csv_path): df = pd.read_csv of
\* the file just written, then the figures; write_html raises OSError when
\* a file cannot be written.
GenerateVisualizations ==
  /\ pc = "generate_visualizations"
  /\ viz_calls' = viz_calls + 1
  /\ df' = << read_csv(to_csv(DataFrame(csv[1], columns))) >>
  /\ IF "html" \in faults
     THEN RaiseInFinally("OSError")
     ELSE /\ pc' = "report"
          /\ UNCHANGED exc
  /\ UNCHANGED << config_vars, sleeps, pdf_attempts, connect_vars, columns,
                  web_vars, os_cores, hotplugs, data, monitor_data, idx,
                  load_avg, cpu_percent, proc_info, now, start_time, csv,
                  interrupts, started, ticks, save_calls, finalized,
                  ended_by, sigint_at >>

\* if self.direct_pdf and PLOTLY_PDF_SUPPORT: create_pdf_reports(...)
\* elif PDF_SUPPORT: self.convert_html_to_pdf(html_paths)
\* -- the generations called, each with whether it made a file.  Neither
\* raises: both catch every Exception and return no path.
PdfGenerations(direct, plotly, converter, failing) ==
  IF direct /\ plotly
  THEN << [by |-> "create_pdf_reports", made |-> "direct_pdf" \notin failing] >>
  ELSE IF converter
       THEN << [by |-> "convert_html_to_pdf", made |-> "convert" \notin failing] >>
       ELSE << >>

\* the prints, and `if self.pdf_enabled:` with the PDF reports, that end
\* the finally block
Report ==
  /\ pc = "report"
  /\ pdf_attempts' = IF pdf_enabled
                     THEN PdfGenerations(direct_pdf, plotly_pdf_support,
                                         pdf_support, faults)
                     ELSE << >>
  /\ pc' = "run_end"
  /\ finalized' = TRUE
  /\ UNCHANGED << config_vars, sleeps, df, connect_vars, columns, web_vars,
                  os_cores, hotplugs, data, monitor_data, idx, load_avg,
                  cpu_percent, proc_info, now, start_time, exc, csv,
                  interrupts, started, ticks, save_calls, viz_calls,
                  ended_by, sigint_at >>

\* run returns, or the pending exception propagates to main
RunEnd ==
  /\ pc = "run_end"
  /\ pc' = IF exc = "none" THEN "returned" ELSE "raised"
  /\ UNCHANGED << config_vars, trace_vars, connect_vars, columns, web_vars,
                  os_cores, hotplugs, data, monitor_data, idx, load_avg,
                  cpu_percent, proc_info, now, start_time, exc, csv,
                  history_vars >>

Next ==
  \/ RunStart
  \/ Timestamp
  \/ GetLoadAvg
  \/ AppendLoad1
  \/ AppendLoad5
  \/ AppendLoad15
  \/ CpuHotplug
  \/ CpuPercent
  \/ CpuLoop
  \/ ProcLoop
  \/ AppendProcCpu
  \/ AppendProcMemory
  \/ AppendProcStatus
  \/ UpdateWeb
  \/ CheckDuration
  \/ Sleep
  \/ Interrupt
  \/ ExceptHandler
  \/ FinallyGuard
  \/ SaveToCsv
  \/ GenerateVisualizations
  \/ Report
  \/ RunEnd

Spec == Init /\ [][Next]_vars

\* Every process list and core count on both process tables, the run going
\* on until it is interrupted, no web interface.
InitStore ==
  InitRun("start", ProcessLists, 1..MaxCores, {1}, {None},
          { <<FALSE, FALSE>> }, {0}, {0}, {LiveTable, DeniedTable}, {NotLoaded}, {Nominal})

SpecStore == InitStore /\ [][Next]_vars

SpecTiming == InitTiming /\ [][Next]_vars

\* One process spec, one core: every PDF setting and every set of failing
\* export steps, the run ending by its duration or by an interrupt.
InitExport ==
  InitRun("start", { << << "w" >> >> }, {1}, {1}, {1},
          { <<FALSE, FALSE>> }, {0}, {0}, {LiveTable}, {NotLoaded}, ExportSetups)

SpecExport == InitExport /\ [][Next]_vars

\* One process spec, one core: local clocks that are set back during the run.
InitClock ==
  InitRun("start", { << << "w" >> >> }, {1}, {1}, Durations,
          { <<FALSE, FALSE>> }, {0}, {0}, {LiveTable}, {NotLoaded}, ClockSetups)

SpecClock == InitClock /\ [][Next]_vars

RunOver == pc \in {"returned", "raised"}

(***************************************************************************)
(* The web interface: the socket.io connect handler, the background emit   *)
(* thread it starts, the /api/data handler and stop, each running in a     *)
(* thread of its own next to the main thread.  All of them are daemon      *)
(* threads of the server thread: they end with the process, when run is    *)
(* over.                                                                    *)
(***************************************************************************)
ServerRuns == web_app /\ ~RunOver

\* handle_connect: if not self.thread or not self.thread.is_alive(): start it
HandleConnect ==
  /\ ServerRuns
  /\ bg \in {"none", "exited"}
  /\ bg' = "while"
  /\ UNCHANGED << config_vars, trace_vars, connect_vars, columns,
                  thread_stop_event, sent, handed, os_cores, hotplugs, data,
                  monitor_data, pc, idx, load_avg, cpu_percent, proc_info,
                  now, start_time, exc, csv, history_vars >>

\* A variant of the loop test that does not look at the stop event.
AfterWhileTestIgnoringStop(stopped) == "if_data"

\* while not self.thread_stop_event.is_set(): where the thread goes next
AfterWhileTest(stopped) == IF stopped THEN "exited" ELSE "if_data"

\* while not self.thread_stop_event.is_set():
BgWhile ==
  /\ ServerRuns
  /\ bg = "while"
  /\ bg' = AfterWhileTest(thread_stop_event)
  /\ UNCHANGED << config_vars, trace_vars, connect_vars, columns,
                  thread_stop_event, sent, handed, os_cores, hotplugs, data,
                  monitor_data, pc, idx, load_avg, cpu_percent, proc_info,
                  now, start_time, exc, csv, history_vars >>

\* if self.monitor_data:
BgIfData ==
  /\ ServerRuns
  /\ bg = "if_data"
  /\ bg' = IF HasMonitorData(monitor_data, data) THEN "emit" ELSE "sleep"
  /\ UNCHANGED << config_vars, trace_vars, connect_vars, columns,
                  thread_stop_event, sent, handed, os_cores, hotplugs, data,
                  monitor_data, pc, idx, load_avg, cpu_percent, proc_info,
                  now, start_time, exc, csv, history_vars >>

\* serializable_data = self._make_json_serializable(self.monitor_data)
\* self.socketio.emit('update_data', json.dumps(serializable_data))
BgEmit ==
  /\ ServerRuns
  /\ bg = "emit"
  /\ sent' = << [by |-> "emit",
                 payload |-> make_json_serializable(Deref(monitor_data, data))] >>
  /\ data' = IF monitor_data = "self.data"
             THEN ArgumentAfterSerializing(data) ELSE data
  /\ bg' = "sleep"
  /\ UNCHANGED << config_vars, trace_vars, connect_vars, columns,
                  thread_stop_event, handed, os_cores, hotplugs,
                  monitor_data, pc, idx, load_avg, cpu_percent, proc_info,
                  now, start_time, exc, csv, history_vars >>

\* time.sleep(1)
BgSleep ==
  /\ ServerRuns
  /\ bg = "sleep"
  /\ bg' = "while"
  /\ UNCHANGED << config_vars, trace_vars, connect_vars, columns,
                  thread_stop_event, sent, handed, os_cores, hotplugs, data,
                  monitor_data, pc, idx, load_avg, cpu_percent, proc_info,
                  now, start_time, exc, csv, history_vars >>

\* get_data: if self.monitor_data: return jsonify(self.monitor_data)
\*           return jsonify({})
GetData ==
  /\ ServerRuns
  /\ sent' = << [by |-> "api",
                 payload |-> IF HasMonitorData(monitor_data, data)
                             THEN jsonify(Deref(monitor_data, data))
                             ELSE << >>] >>
  /\ data' = IF monitor_data = "self.data"
             THEN ArgumentAfterSerializing(data) ELSE data
  /\ UNCHANGED << config_vars, trace_vars, connect_vars, columns, bg,
                  thread_stop_event, handed, os_cores, hotplugs,
                  monitor_data, pc, idx, load_avg, cpu_percent, proc_info,
                  now, start_time, exc, csv, history_vars >>

\* MonitorWebApp.stop: self.thread_stop_event.set()
WebStop ==
  /\ ServerRuns
  /\ ~thread_stop_event
  /\ thread_stop_event' = TRUE
  /\ UNCHANGED << config_vars, trace_vars, connect_vars, columns, bg, sent,
                  handed, os_cores, hotplugs, data, monitor_data, pc, idx,
                  load_avg, cpu_percent, proc_info, now, start_time, exc,
                  csv, history_vars >>

\* One process spec, one core, the web interface on: a run with its clients.
InitWeb ==
  InitRun("start", { << << "w" >> >> }, {1}, {1}, {None, 1},
          { <<TRUE, TRUE>> }, {0}, {0}, {LiveTable}, {NotLoaded}, {Nominal})

NextWeb ==
  \/ Next
  \/ HandleConnect
  \/ BgWhile
  \/ BgIfData
  \/ BgEmit
  \/ BgSleep
  \/ GetData
  \/ WebStop

SpecWeb == InitWeb /\ [][NextWeb]_vars

(***************************************************************************)
(* The web application on its own: connect handlers that run concurrently, *)
(* statement by statement, and every background thread they start.         *)
(***************************************************************************)
web_frame == << config_vars, trace_vars, columns, bg, os_cores, hotplugs, pc,
                idx, load_avg, cpu_percent, proc_info, now, start_time, exc,
                csv, history_vars >>

\* A client connects: its handle_connect begins.
ConnectArrives(c) ==
  /\ ServerRuns
  /\ conn[c] = "idle"
  /\ conn' = [conn EXCEPT ![c] = "check"]
  /\ UNCHANGED << web_frame, thread, threads, thread_stop_event, sent,
                  handed, data, monitor_data >>

\* not self.thread or not self.thread.is_alive()
NeedsThread(t, ts) == t = None \/ ts[t].at = "exited"

\* if not self.thread or not self.thread.is_alive():
ConnectCheck(c) ==
  /\ ServerRuns
  /\ conn[c] = "check"
  /\ conn' = [conn EXCEPT ![c] = IF NeedsThread(thread, threads)
                                 THEN "start" ELSE "idle"]
  /\ UNCHANGED << web_frame, thread, threads, thread_stop_event, sent,
                  handed, data, monitor_data >>

\* self.thread = threading.Thread(target=self._background_thread)
\* self.thread.daemon = True; self.thread.start()
ConnectStart(c) ==
  /\ ServerRuns
  /\ conn[c] = "start"
  /\ Len(threads) < MaxThreads
  /\ threads' = Append(threads, [at |-> "while", emitted |-> 0,
                                 late |-> thread_stop_event])
  /\ thread' = Len(threads')
  /\ conn' = [conn EXCEPT ![c] = "idle"]
  /\ UNCHANGED << web_frame, thread_stop_event, sent, handed, data,
                  monitor_data >>

\* Thread i moves to pc `to`; `emits` says whether the step sent a message.
\* `emitted` counts the messages a thread sent with the stop event set.
ThreadGoes(i, to, emits) ==
  threads' = [threads EXCEPT ![i] =
                [@ EXCEPT !.at = to,
                          !.emitted = IF emits /\ thread_stop_event
                                         /\ @ < MaxPostStopEmits
                                      THEN @ + 1 ELSE @]]

\* _background_thread of thread i: while not self.thread_stop_event.is_set():
ThWhile(i) ==
  /\ i \in DOMAIN threads
  /\ threads[i].at = "while"
  /\ ThreadGoes(i, AfterWhileTest(thread_stop_event), FALSE)
  /\ UNCHANGED << web_frame, conn, thread, thread_stop_event, sent, handed,
                  data, monitor_data >>

\* if self.monitor_data:
ThIfData(i) ==
  /\ i \in DOMAIN threads
  /\ threads[i].at = "if_data"
  /\ ThreadGoes(i, IF HasMonitorData(monitor_data, data)
                   THEN "emit" ELSE "sleep", FALSE)
  /\ UNCHANGED << web_frame, conn, thread, thread_stop_event, sent, handed,
                  data, monitor_data >>

\* self.socketio.emit('update_data', json.dumps(serializable_data))
ThEmit(i) ==
  /\ i \in DOMAIN threads
  /\ threads[i].at = "emit"
  /\ sent' = << [by |-> "emit",
                 payload |-> make_json_serializable(Deref(monitor_data, data))] >>
  /\ data' = IF monitor_data = "self.data"
             THEN ArgumentAfterSerializing(data) ELSE data
  /\ ThreadGoes(i, "sleep", TRUE)
  /\ UNCHANGED << web_frame, conn, thread, thread_stop_event, handed,
                  monitor_data >>

\* time.sleep(1)
ThSleep(i) ==
  /\ i \in DOMAIN threads
  /\ threads[i].at = "sleep"
  /\ ThreadGoes(i, "while", FALSE)
  /\ UNCHANGED << web_frame, conn, thread, thread_stop_event, sent, handed,
                  data, monitor_data >>

\* One step of background thread i.
ThreadStep(i) == ThWhile(i) \/ ThIfData(i) \/ ThEmit(i) \/ ThSleep(i)

\* The monitor's tick, seen from the web app: update_data(self.data)
PublishTick ==
  /\ ServerRuns
  /\ monitor_data = "None"
  /\ monitor_data' = update_data("self.data")
  /\ handed' = << data >>
  /\ UNCHANGED << web_frame, connect_vars, thread_stop_event, sent, data >>

\* One process spec, one core, the server up and the monitor sampling.
InitConnect ==
  InitRun("serving", { << << "w" >> >> }, {1}, {1}, {None},
          { <<TRUE, TRUE>> }, {0}, {0}, {LiveTable}, {NotLoaded}, {Nominal})

NextConnect ==
  \/ \E c \in Clients : ConnectArrives(c)
  \/ \E c \in Clients : ConnectCheck(c)
  \/ \E c \in Clients : ConnectStart(c)
  \/ \E i \in 1..MaxThreads : ThWhile(i)
  \/ \E i \in 1..MaxThreads : ThIfData(i)
  \/ \E i \in 1..MaxThreads : ThEmit(i)
  \/ \E i \in 1..MaxThreads : ThSleep(i)
  \/ PublishTick
  \/ WebStop

SpecConnect == InitConnect /\ [][NextConnect]_vars

\* Every started thread is scheduled again and again: time.sleep(1) returns
\* and the interpreter runs each live thread.
SpecConnectFair ==
  SpecConnect /\ \A i \in 1..MaxThreads : WF_vars(ThreadStep(i))

(***************************************************************************)
(* ProcessMonitor.__init__, statement by statement, from every file of     *)
(* ConfigFiles.                                                             *)
(***************************************************************************)
run_vars == << web_support, plotly_pdf_support, pdf_support, faults,
               clock_back_at, clock_shift, trace_vars, connect_vars,
               duration, sample_time, oversleep, os_procs, hotplugs,
               monitor_data, idx, load_avg, cpu_percent, proc_info, now,
               start_time, csv, history_vars, web_vars >>

\* An exception raised in __init__ leaves the constructor: no monitor.
InitRaise(e) ==
  /\ pc' = "init_raised"
  /\ exc' = e

\* self.config = self._load_config()
LoadConfig ==
  /\ pc = "load_config"
  /\ config' = load_config(config_file)
  /\ logged' = LoadRaises(config_file)
  /\ pc' = "read_processes"
  /\ UNCHANGED << config_file, process_list, cpu_count, interval,
                  web_enabled, web_app, os_cores, data, columns, exc,
                  pdf_enabled, direct_pdf, run_vars >>

\* self.process_list = self.config["processes"]
ReadProcesses ==
  /\ pc = "read_processes"
  /\ IF SubscriptRaises(config, "processes") # ""
     THEN /\ InitRaise(SubscriptRaises(config, "processes"))
          /\ UNCHANGED process_list
     ELSE /\ process_list' = config.processes.v
          /\ pc' = "read_settings"
          /\ UNCHANGED exc
  /\ UNCHANGED << config_file, config, logged, cpu_count, interval,
                  web_enabled, web_app, os_cores, data, columns, pdf_enabled,
                  direct_pdf, run_vars >>

\* self.settings = self.config["settings"]
ReadSettings ==
  /\ pc = "read_settings"
  /\ IF SubscriptRaises(config, "settings") # ""
     THEN InitRaise(SubscriptRaises(config, "settings"))
     ELSE /\ pc' = "get_settings"
          /\ UNCHANGED exc
  /\ UNCHANGED << config_file, config, logged, process_list, cpu_count,
                  interval, web_enabled, web_app, os_cores, data, columns,
                  pdf_enabled, direct_pdf, run_vars >>

\* self.interval = self.settings.get("interval", 10)
\* self.web_enabled = self.settings.get("web_enabled", False)
\* self.pdf_enabled = self.settings.get("pdf_enabled", False)
\* self.direct_pdf = self.settings.get("direct_pdf", True)
GetSettings ==
  /\ pc = "get_settings"
  /\ IF config.settings.has = "null"
     THEN /\ InitRaise("AttributeError")
          /\ UNCHANGED << interval, web_enabled, pdf_enabled, direct_pdf >>
     ELSE /\ interval' = Get(config.settings.v.interval, GetIntervalDefault)
          /\ web_enabled' = Get(config.settings.v.web_enabled, FALSE)
          /\ pdf_enabled' = Get(config.settings.v.pdf_enabled, FALSE)
          /\ direct_pdf' = Get(config.settings.v.direct_pdf, TRUE)
          /\ pc' = "init_data"
          /\ UNCHANGED exc
  /\ UNCHANGED << config_file, config, logged, process_list, cpu_count,
                  web_app, os_cores, data, columns, run_vars >>

\* self.data = {...}; cpu_count = psutil.cpu_count(); the two loops that
\* add the columns
InitData ==
  /\ pc = "init_data"
  /\ cpu_count' \in 1..MaxCores
  /\ os_cores' = cpu_count'
  /\ IF config.processes.has = "null"
     THEN /\ InitRaise("TypeError")
          /\ UNCHANGED << data, columns >>
     ELSE /\ data' = InitialData(process_list, cpu_count')
          /\ columns' = InitialColumns(process_list, cpu_count')
          /\ pc' = "setup_web"
          /\ UNCHANGED exc
  /\ UNCHANGED << config_file, config, logged, process_list, interval,
                  web_enabled, web_app, pdf_enabled, direct_pdf, run_vars >>

\* The ways the web_app module can be found at start-up.
WebSupports == { "available", "missing", "broken" }

\* The machines the constructor runs on.
ConfigSetups == { [Nominal EXCEPT !.web_support = w] : w \in WebSupports }

\* if self.web_enabled and WEB_SUPPORT: self._setup_web_app() -- the value
\* of self.web_app afterwards ("is not None"): it stays None when WEB_SUPPORT
\* is False and when create_web_app raises
setup_web_app(enabled, support) == enabled /\ support = "available"

SetupWeb ==
  /\ pc = "setup_web"
  /\ web_app' = setup_web_app(web_enabled, web_support)
  /\ pc' = "constructed"
  /\ UNCHANGED << config_file, config, logged, process_list, cpu_count,
                  interval, web_enabled, os_cores, data, columns, exc,
                  pdf_enabled, direct_pdf, run_vars >>

\* main, after the constructor returned: if args.web: monitor.web_enabled =
\* True; if args.pdf: monitor.pdf_enabled = True; then monitor.run(...).
\* Nothing here calls _setup_web_app: self.web_app is left as constructed.
MainOverrides ==
  /\ pc = "constructed"
  /\ \E web_flag \in BOOLEAN, pdf_flag \in BOOLEAN :
       /\ web_enabled' = (web_flag \/ web_enabled)
       /\ pdf_enabled' = (pdf_flag \/ pdf_enabled)
  /\ pc' = "start"
  /\ UNCHANGED << config_file, config, logged, process_list, cpu_count,
                  interval, web_app, os_cores, data, columns, exc,
                  direct_pdf, run_vars >>

InitConfig ==
  InitRun("load_config", { << >> }, {0}, {0}, {None}, { <<FALSE, FALSE>> },
          {0}, {0}, { << >> }, ConfigFiles, ConfigSetups)

NextConfig ==
  \/ LoadConfig
  \/ ReadProcesses
  \/ ReadSettings
  \/ GetSettings
  \/ InitData
  \/ SetupWeb
  \/ MainOverrides

SpecConfig == InitConfig /\ [][NextConfig]_vars

(***************************************************************************)
(* _get_process_info on its own: every process table up to MaxProcs        *)
(* processes, every name to match; the for loop runs one process at a time.*)
(***************************************************************************)
\* The names _get_process_info is asked to match: "w", "w1", "W" and "".
AggNames == { << "w" >>, << "w", "1" >>, << "W" >>, << >> }

\* The processes a table is made of: named "w1" or "W1", each value read or
\* not, and one process of which psutil could read nothing.
OsProcs ==
  [ name : { << "w", "1" >>, << "W", "1" >> },
    cpu_percent : {None, 5, 10},
    memory_rss : {None, 4},
    status : {"running", "sleeping"} ]
  \cup { [name |-> NoName, cpu_percent |-> None, memory_rss |-> None,
          status |-> NoStatus] }

ProcTables == UNION { [1..n -> OsProcs] : n \in 0..MaxProcs }

InitAgg ==
  InitRun("agg_loop", { << n >> : n \in AggNames }, {1}, {1}, {None},
          { <<FALSE, FALSE>> }, {0}, {0}, ProcTables, {NotLoaded}, {Nominal})

\* for proc in psutil.process_iter([...]): try: ... except (...): continue
AggIter ==
  /\ pc = "agg_loop"
  /\ idx < Len(os_procs)
  /\ proc_info' = ProcStep(proc_info, os_procs[idx + 1], process_list[1])
  /\ idx' = idx + 1
  /\ pc' = IF proc_info'.raised # "" THEN "agg_raised" ELSE "agg_loop"
  /\ UNCHANGED << config_vars, trace_vars, connect_vars, columns, web_vars,
                  os_cores, hotplugs, data, monitor_data, load_avg,
                  cpu_percent, now, start_time, exc, csv, history_vars >>

\* return cpu_percent, memory_rss, status
AggReturn ==
  /\ pc = "agg_loop"
  /\ idx = Len(os_procs)
  /\ pc' = "agg_returned"
  /\ UNCHANGED << config_vars, trace_vars, connect_vars, columns, web_vars,
                  os_cores, hotplugs, data, monitor_data, idx, load_avg,
                  cpu_percent, proc_info, now, start_time, exc, csv,
                  history_vars >>

NextAgg ==
  \/ AggIter
  \/ AggReturn

SpecAgg == InitAgg /\ [][NextAgg]_vars

(***************************************************************************)
(* The claims.                                                              *)
(***************************************************************************)
Columns == DOMAIN data
Elapsed == now - start_time

\* C1: after N completed calls of collect_data every column of the store has
\* length exactly N, for any list of process specs and any core count.
C1_EveryColumnHasLengthN ==
  pc \in {"check_duration", "sleep"} =>
    \A c \in Columns : Len(data[c]) = ticks

\* C2: an interrupt requested while collect_data is executing does not cut
\* the tick short: when the run has left the loop, every collect_data call
\* that was begun has run to its end.
C2_InterruptCompletesTickInFlight ==
  ( /\ Len(sigint_at) >= 1
    /\ sigint_at[1].pc \in CollectPcs
    /\ pc \notin TryPcs )
  => started = ticks

\* C3: whenever save_to_csv is called from run's finally block, all columns
\* of the store have the same length.
C3_ColumnsEqualWhenPersisted ==
  pc = "save_to_csv" =>
    \A c1, c2 \in Columns : Len(data[c1]) = Len(data[c2])

\* C4: a run that collected at least one sample and left the loop by
\* duration expiry or by cancellation performs finalization exactly once: one
\* save_to_csv that writes the table, followed by one hand-off to
\* generate_visualizations, to the end of the finally block.
C4_FinalizationExactlyOnce ==
  (RunOver /\ ticks >= 1 /\ ended_by \in {"duration", "interrupt"}) =>
    (save_calls = 1 /\ Len(csv) = 1 /\ viz_calls = 1 /\ finalized)

\* C5: save_to_csv and the exporters are never called when no tick has
\* appended a value to every column (zero complete samples).
C5_NoFlushWithoutCompleteSample ==
  (save_calls >= 1 \/ viz_calls >= 1 \/ pc = "save_to_csv") => ticks >= 1

\* C6: repeated interrupts never cause a second save_to_csv, and a second
\* interrupt arriving while finalization is in progress does not keep the
\* finalization from running to the end of the finally block before run is
\* left.
Finalizing == {"save_to_csv", "generate_visualizations", "report"}

C6_SecondInterruptLeavesFinalization ==
  /\ save_calls <= 1
  /\ ( /\ RunOver
       /\ Len(sigint_at) >= 2
       /\ sigint_at[2].pc \in Finalizing )
     => finalized

\* C7: an interrupt arriving in time.sleep after tick k (k >= 1) stops the
\* run with exactly k values in every column, finalization runs once over
\* those k samples, and no further collect_data call is started.
C7_InterruptInSleepKeepsKSamples ==
  ( /\ RunOver
    /\ Len(sigint_at) >= 1
    /\ sigint_at[1].pc = "sleep" )
  => LET k == sigint_at[1].ticks
     IN  /\ \A c \in Columns : Len(data[c]) = k
         /\ started = k
         /\ save_calls = 1
         /\ Len(csv) = 1
         /\ \A c \in Columns : Len(csv[1][c]) = k
         /\ viz_calls = 1
         /\ finalized

\* C8 as stated: a run that leaves the loop by duration expiry has a number
\* of samples within 1 of elapsed / interval, and interval 1, duration 3
\* with instantaneous sampling gives 3 or 4 samples.
C8_SamplesWithinOneOfElapsed ==
  ended_by = "duration" =>
    /\ (ticks - 1) * interval <= Elapsed
    /\ Elapsed <= (ticks + 1) * interval
    /\ (interval = 1 /\ duration = 3 /\ sample_time = 0) => ticks \in {3, 4}

\* C8 as amended: a run that leaves the loop by duration expiry after n
\* samples has (n - 1) * interval <= elapsed, so n <= elapsed / interval + 1;
\* when sampling is instantaneous and time.sleep does not overrun,
\* n = elapsed / interval + 1, and interval 1, duration 3 gives 4 samples.
C8_SamplesAtMostElapsedPlusOne ==
  ended_by = "duration" =>
    /\ (ticks - 1) * interval <= Elapsed
    /\ (sample_time = 0 /\ oversleep = 0) =>
         /\ (ticks - 1) * interval = Elapsed
         /\ (interval = 1 /\ duration = 3) => ticks = 4

\* A run of two or more samples whose sampling latency and sleep overrun
\* put the sample count more than 1 below elapsed / interval.
C8_SlowSamplingWitness ==
  /\ ended_by = "duration"
  /\ ticks >= 2
  /\ Elapsed > (ticks + 1) * interval

\* C9: with a duration D >= 0 configured the loop leaves Running by itself
\* after the first tick that completes with at least D seconds elapsed: the
\* loop never goes on to time.sleep when D is not None and elapsed >= D.
C9_ConfiguredDurationEndsLoop ==
  (pc = "sleep" /\ duration # None) => Elapsed < duration

\* C10: when _get_process_info returns for a name that k >= 1 processes of
\* the table contain, cpu is the sum of their CPU% (an unread value counting
\* 0), memory the sum of their resident memory, and status the status of the
\* matching process enumerated last.
Contains(t, s) ==
  \E a \in 0..Len(t) : \E b \in a..Len(t) : SubSeq(t, a + 1, b) = s

Matching(name, procs) ==
  { i \in 1..Len(procs) : procs[i].name # NoName /\ Contains(procs[i].name, name) }

RECURSIVE SumOver(_, _, _)
SumOver(S, procs, field) ==
  IF S = {} THEN 0
  ELSE LET i == CHOOSE x \in S : TRUE
           v == procs[i][field]
       IN  (IF v = None THEN 0 ELSE v) + SumOver(S \ {i}, procs, field)

LastOf(S) == CHOOSE i \in S : \A j \in S : j <= i

C10_AggregateSumsAndLastStatus ==
  LET m == Matching(process_list[1], os_procs)
  IN  (pc = "agg_returned" /\ m # {}) =>
        /\ proc_info.cpu_percent = SumOver(m, os_procs, "cpu_percent")
        /\ proc_info.memory_rss = SumOver(m, os_procs, "memory_rss")
        /\ proc_info.status = os_procs[LastOf(m)].status
        /\ proc_info = get_process_info(process_list[1], os_procs)

\* Two matching processes with different readable CPU% and different status,
\* the call returned.
C10_TwoMatchesWitness ==
  /\ pc = "agg_returned"
  /\ Len(os_procs) = 2
  /\ Matching(process_list[1], os_procs) = {1, 2}
  /\ os_procs[1].cpu_percent = 10
  /\ os_procs[2].cpu_percent = 5
  /\ os_procs[1].status # os_procs[2].status
  /\ proc_info.cpu_percent = 15

\* C11: when no process of the table contains the name, _get_process_info
\* returns (0, 0, "not_found"); and in a run whose process table holds no
\* match for a configured name, every value of that name's status column is
\* "not_found".
NotFound(r) ==
  r.cpu_percent = 0 /\ r.memory_rss = 0 /\ r.status = "not_found"

C11_NoMatchGivesNotFound ==
  /\ ( /\ pc = "agg_returned"
       /\ Matching(process_list[1], os_procs) = {} )
     => NotFound(proc_info)
  /\ ( /\ pc \in {"append_proc_cpu", "append_proc_memory", "append_proc_status"}
       /\ Matching(process_list[idx + 1], os_procs) = {} )
     => NotFound(proc_info)
  /\ \A j \in 1..Len(process_list) :
       Matching(process_list[j], os_procs) = {} =>
         LET col == data[ProcCol(process_list[j], "_status")]
         IN  \A i \in 1..Len(col) : col[i] = "not_found"

\* Two ticks of a run configured with "W", which no process of the table
\* contains: both status values are recorded.
C11_NeverMatchedWitness ==
  /\ process_list = << << "W" >> >>
  /\ Matching(<< "W" >>, os_procs) = {}
  /\ ticks = 2
  /\ data[ProcCol(<< "W" >>, "_status")] = << "not_found", "not_found" >>

\* C12: a process whose name, CPU%, memory or status could not be read is
\* skipped entirely: the call never raises, and it returns the sums and the
\* last status over the matching processes that could be read in full.
Readable(p) ==
  /\ p.name # NoName
  /\ p.cpu_percent # None
  /\ p.memory_rss # None
  /\ p.status # NoStatus

C12_UnreadableProcessSkipped ==
  /\ pc # "agg_raised"
  /\ pc = "agg_returned" =>
       LET m == { i \in Matching(process_list[1], os_procs) :
                    Readable(os_procs[i]) }
       IN  /\ proc_info.cpu_percent = SumOver(m, os_procs, "cpu_percent")
           /\ proc_info.memory_rss = SumOver(m, os_procs, "memory_rss")
           /\ proc_info.status = IF m = {} THEN "not_found"
                                 ELSE os_procs[LastOf(m)].status

\* C13: collect_data never raises to run: no exception other than the
\* KeyboardInterrupt of a SIGINT ever leaves the loop, so that a tick whose
\* load averages or per-core CPU could not be read still runs to its end.
C13_CollectDataNeverRaises ==
  /\ ended_by # "error"
  /\ exc \notin {"OSError", "KeyError", "TypeError"}

\* C14: a tick appends all of its values or none: when collect_data has
\* raised partway, no column holds a value of the failed tick, so every
\* column is as long as the number of ticks completed before it.
C14_FailedTickAppendsNothing ==
  ended_by = "error" =>
    /\ Len(data[SysCol("timestamp")]) = ticks
    /\ \A c \in Columns : Len(data[c]) = Len(data[SysCol("timestamp")])

\* C15: whatever the background thread emits or /api/data returns, all
\* columns in it have the same length, also when the read falls between the
\* appends of a later collect_data.
C15_ReadersSeeWholeTicks ==
  sent # << >> => SameLength(sent[1].payload)

\* C16: the value update_data was handed at the end of a tick keeps the
\* column lengths and values it had when it was handed over, whatever is
\* appended to the store afterwards.
C16_HandedValueNeverChanges ==
  handed # << >> => Deref(monitor_data, data) = handed[1]

\* C17: no operation of MonitorWebApp (update_data, the connect handler, the
\* background thread's statements, /api/data, stop) changes the store; every
\* step that changes the store is an append of collect_data.
WebOperation ==
  \/ UpdateWeb
  \/ HandleConnect
  \/ BgWhile
  \/ BgIfData
  \/ BgEmit
  \/ BgSleep
  \/ GetData
  \/ WebStop

StoreAppend ==
  \/ Timestamp
  \/ AppendLoad1
  \/ AppendLoad5
  \/ AppendLoad15
  \/ CpuLoop
  \/ AppendProcCpu
  \/ AppendProcMemory
  \/ AppendProcStatus

C17_WebAppNeverWritesTheStore ==
  [][ /\ WebOperation => data' = data
      /\ data' # data => StoreAppend ]_vars

\* The background thread has emitted a payload of two samples, /api/data or
\* stop has been served as well (the stop event is set), and the store
\* still holds the two timestamps as the collector appended them.
C17_EmittedAndStoppedWitness ==
  /\ sent # << >>
  /\ sent[1].by = "emit"
  /\ Len(sent[1].payload[SysCol("timestamp")]) = 2
  /\ thread_stop_event
  /\ handed # << >>
  /\ data[SysCol("timestamp")] = << 0, 1 >>

\* C19: with N cores detected at startup, every completed tick has recorded
\* exactly N per-core values, one in each of cpu_0 .. cpu_{N-1}, however many
\* per-core values the operating system reports on that tick, and no tick
\* fails over the number reported.
C19_EveryTickRecordsStartupCores ==
  /\ exc # "KeyError"
  /\ pc \in {"check_duration", "sleep"} =>
       \A i \in 0..(cpu_count - 1) : Len(data[CpuCol(i)]) = ticks

\* C18: the column names of the store and their order are those of
\* construction in every state of a run: timestamp, the three load columns,
\* cpu_0 .. cpu_{N-1}, then the cpu, memory and status column of each
\* configured name in configured order (a name configured twice has its
\* columns once, where it comes first); no tick, publish, persist or
\* finalization step adds, removes or reorders a column.
RECURSIVE FirstOccurrences(_)
FirstOccurrences(s) ==
  IF s = << >> THEN << >>
  ELSE LET front == FirstOccurrences(SubSeq(s, 1, Len(s) - 1))
           last == s[Len(s)]
       IN  IF \E i \in 1..(Len(s) - 1) : s[i] = last
           THEN front ELSE Append(front, last)

ProcKinds == << "_cpu_percent", "_memory_rss", "_status" >>

Schema ==
  FirstOccurrences(
    << SysCol("timestamp"), SysCol("system_load_1"), SysCol("system_load_5"),
       SysCol("system_load_15") >>
    \o [ i \in 1..cpu_count |-> CpuCol(i - 1) ]
    \o [ m \in 1..(3 * Len(process_list)) |->
           ProcCol(process_list[((m - 1) \div 3) + 1],
                   ProcKinds[((m - 1) % 3) + 1]) ])

C18_SchemaFixedAtConstruction ==
  /\ columns = Schema
  /\ DOMAIN data = { columns[i] : i \in 1..Len(columns) }
  /\ csv # << >> => DOMAIN csv[1] = DOMAIN data

\* Two cores and the names "w" and "W": three ticks recorded and the table
\* persisted, the twelve columns in their order.
C18_TwelveColumnsWitness ==
  /\ cpu_count = 2
  /\ process_list = << << "w" >>, << "W" >> >>
  /\ ticks = 3
  /\ csv # << >>
  /\ Len(columns) = 12
  /\ columns[5] = CpuCol(0)
  /\ columns[7] = ProcCol(<< "w" >>, "_cpu_percent")
  /\ columns[12] = ProcCol(<< "W" >>, "_status")

\* C20: a configuration error is never fatal: __init__ never raises, and
\* when the file is missing, unparsable, empty or lacks its processes or
\* settings entry, the monitor is constructed with the built-in default of
\* one process spec and the default interval, and the error is logged.
InvalidFile(f) ==
  \/ f.kind \in {"missing", "unparsable", "empty"}
  \/ f.processes.has # "value"
  \/ f.settings.has # "value"

C20_ConfigErrorNeverFatal ==
  /\ pc # "init_raised"
  /\ (pc = "constructed" /\ InvalidFile(config_file)) =>
       /\ process_list = << DefaultName >>
       /\ interval = DefaultInterval
       /\ logged

\* No SIGINT arrived while the finally block was executing.
NoInterruptInFinally ==
  \A i \in DOMAIN sigint_at : sigint_at[i].pc \notin FinallyPcs

\* The loop was left by its duration or by an interrupt with whole ticks in
\* the store: finalization has data to export and nothing pending.
CleanFinalization ==
  /\ ended_by \in {"duration", "interrupt"}
  /\ HasData(data)
  /\ SameLength(data)
  /\ NoInterruptInFinally

\* A PDF generation can be called: PDF output is on and a generator is there.
PdfPossible ==
  pdf_enabled /\ ((direct_pdf /\ plotly_pdf_support) \/ pdf_support)

\* C21: the exporters are independent during finalization: whichever export
\* step fails, the HTML step and (when enabled and available) the PDF step
\* are still attempted after the CSV step, and run returns normally.
C21_ExportStepsIndependent ==
  (RunOver /\ CleanFinalization) =>
    /\ pc = "returned"
    /\ save_calls = 1
    /\ viz_calls = 1
    /\ PdfPossible => pdf_attempts # << >>

\* C22: finalization never alters the collected data: no step of the finally
\* block, whether it succeeds or raises, changes any list of the store.
C22_FinalizationKeepsData ==
  [][(pc \in FinallyPcs) => (data' = data)]_vars

\* The CSV was written, the HTML step failed and left run with its
\* exception: the two ticks recorded are still in the store.
C22_FailedExportWitness ==
  /\ pc = "raised"
  /\ exc = "OSError"
  /\ ended_by = "duration"
  /\ "html" \in faults
  /\ viz_calls = 1
  /\ csv # << >>
  /\ \A c \in DOMAIN data : Len(data[c]) = 2

\* The number of values the frame holds in its j-th column.
ValuesIn(frame, j) ==
  Cardinality({ r \in 1..Len(frame.rows) : j \in DOMAIN frame.rows[r] })

\* C23: the CSV round trip keeps the shape of the store: the frame that
\* generate_visualizations reads back from the file save_to_csv wrote has
\* the store's column names in the store's order, and in each column as
\* many values as the store's list held when it was flushed.
C23_CsvRoundTripKeepsShape ==
  df # << >> =>
    /\ csv # << >>
    /\ df[1].columns = columns
    /\ \A j \in 1..Len(columns) :
         ValuesIn(df[1], j) = Len(csv[1][columns[j]])
    /\ \A r \in 1..Len(df[1].rows) : Len(df[1].rows[r]) = Len(columns)

\* Two ticks flushed and read back: six columns of two values, the status
\* column last.
C23_TwoRowsReadBackWitness ==
  /\ df # << >>
  /\ Len(df[1].rows) = 2
  /\ Len(df[1].columns) = 8
  /\ df[1].columns[8] = ProcCol(<< "w" >>, "_status")
  /\ df[1].rows[2][8].as = "text"

\* The final report step of the finally block was reached and executed.
Reported == finalized /\ viz_calls = 1

\* Direct PDF generation is not enabled, or it was called and made no file.
DirectFailedOrOff ==
  \/ ~direct_pdf
  \/ \E i \in DOMAIN pdf_attempts :
       /\ pdf_attempts[i].by = "create_pdf_reports"
       /\ ~pdf_attempts[i].made

\* C27: with PDF generation enabled and the converter module available,
\* HTML-to-PDF conversion is attempted as a fallback whenever direct PDF
\* generation is not enabled or was attempted and produced no file.
C27_ConversionIsTheFallback ==
  (Reported /\ pdf_enabled /\ pdf_support /\ DirectFailedOrOff) =>
    \E i \in DOMAIN pdf_attempts : pdf_attempts[i].by = "convert_html_to_pdf"

\* C24: timestamps never decrease from one tick to the next: in every
\* reachable state each value of the timestamp column is at least the value
\* before it.
C24_TimestampsNonDecreasing ==
  \A i \in 1..(Len(data[SysCol("timestamp")]) - 1) :
    data[SysCol("timestamp")][i] <= data[SysCol("timestamp")][i + 1]

\* C25 as stated: a wait of one interval precedes every sample, the first
\* one of the run included: as many waits have returned as samples began.
C25_WaitPrecedesEverySample == (started >= 1) => (sleeps >= started)

\* C25, amended: an iteration samples, appends and notifies (collect_data),
\* then checks the stop conditions, and only then waits: sample k begins
\* after exactly k - 1 waits, so the first sample is taken with no wait; a
\* wait begins only from the stop check of a completed tick.
C25_SampleCheckThenWait ==
  [][ /\ (started' = started + 1) => (pc = "collect_data" /\ sleeps = started)
      /\ (ticks' = ticks + 1) =>
           (pc = "update_web" /\ pc' = "check_duration" /\ started = ticks')
      /\ (pc' = "sleep") => (pc = "check_duration" /\ sleeps = ticks - 1)
      /\ (sleeps' = sleeps + 1) => (pc = "sleep" /\ pc' = "collect_data")
    ]_vars

\* The third sample has begun after two waits.
C25_ThirdSampleWitness ==
  /\ started = 3
  /\ sleeps = 2
  /\ ticks = 2
  /\ pc = "getloadavg"

\* C26: whenever the web interface is enabled, by the configuration or by
\* main's --web flag, and web support is available, the Broadcaster has been
\* started when run begins, so that collect_data publishes every tick.
C26_EnabledWebIsStarted ==
  (pc = "start" /\ web_enabled /\ web_support = "available") => web_app

\* No name is configured twice.
DistinctNames(l) == \A i, j \in 1..Len(l) : l[i] = l[j] => i = j

\* C30: with distinct process-spec names and the OS reporting the startup
\* core count on every tick, in every reachable state (mid-tick and after a
\* tick cut short included) every column is as long as the timestamp column
\* or one shorter.
C30_ColumnsWithinOneOfTimestamp ==
  (DistinctNames(process_list) /\ hotplugs = 0) =>
    \A c \in DOMAIN data :
      /\ Len(data[c]) <= Len(data[SysCol("timestamp")])
      /\ Len(data[SysCol("timestamp")]) <= Len(data[c]) + 1

\* A run of two distinct names ended by an interrupt in its second tick: the
\* timestamp and the first name's columns hold two values, the second
\* name's status column holds one.
C30_CutShortTickWitness ==
  /\ RunOver
  /\ ended_by = "interrupt"
  /\ hotplugs = 0
  /\ process_list = << << "w" >>, << "W" >> >>
  /\ Len(data[SysCol("timestamp")]) = 2
  /\ Len(data[ProcCol(<< "w" >>, "_status")]) = 2
  /\ Len(data[ProcCol(<< "W" >>, "_status")]) = 1

\* The background threads that are alive.
Alive == { i \in DOMAIN threads : threads[i].at # "exited" }

\* C28: at most one background emit thread is alive at any time, whatever
\* the interleaving of the clients' connect handlers.
C28_AtMostOneEmitThread == Cardinality(Alive) <= 1

\* C29: after stop(), every running background thread terminates, having
\* sent at most one more update_data message, and a thread started by a
\* later connect sends nothing: the stop event is never cleared.
C29_StopEndsEveryThread ==
  /\ [](\A i \in DOMAIN threads :
          /\ threads[i].emitted <= 1
          /\ threads[i].late => threads[i].emitted = 0)
  /\ [][thread_stop_event => thread_stop_event']_vars
  /\ \A i \in 1..MaxThreads :
       (thread_stop_event /\ i \in DOMAIN threads)
         ~> (i \in DOMAIN threads /\ threads[i].at = "exited")

\* The first thread sent one message after stop() and ended; a client that
\* connected afterwards started a second thread, which ended silently.
C29_LateThreadWitness ==
  /\ thread_stop_event
  /\ Len(threads) = 2
  /\ threads[1].at = "exited" /\ ~threads[1].late /\ threads[1].emitted = 1
  /\ threads[2].at = "exited" /\ threads[2].late /\ threads[2].emitted = 0

====
